---- MODULE Spec2Model ----
(***************************************************************************)
(* Ziwio blockchain seed node (src/unnamed/part_001): the in-memory        *)
(* ledger, the WebSocket message router, the peer registry, the liveness   *)
(* sweep and the snapshot file with start-up and shutdown, as a state      *)
(* machine.                                                                *)
(*                                                                         *)
(* Conventions.  A JavaScript value that is absent (undefined, null, or    *)
(* the empty string, all falsy) is the empty string "" here.  A Map is a   *)
(* function on the set of its keys; blockchain.blocks is a sequence,       *)
(* because its insertion order decides the order of equal-height blocks    *)
(* in a sync response; blockKeys holds the keys of that Map in the same    *)
(* order.  Wall-clock fields (connectedAt, lastSeen, timestamps) and       *)
(* Peer.messageCount are not modelled.                                     *)
(***************************************************************************)
EXTENDS Integers, Sequences, FiniteSets, TLC

VARIABLES
    blocks,         \* blockchain.blocks: the values, in Map insertion order
    blockKeys,      \* blockchain.blocks: the keys, in Map insertion order
    transactions,   \* blockchain.transactions: tx.id -> transaction
    txByAddress,    \* blockchain.txByAddress: address -> sequence of tx ids
    height,         \* blockchain.height
    tips,           \* blockchain.tips
    genesisHash,    \* blockchain.genesisHash
    peers,          \* peers: nodeId -> connection whose Peer object is registered
    wsState,        \* per connection: "none", "open", "closing" or "closed"
    peer,           \* per connection: the closure variable `peer` (its nodeId, or "")
    isAlive,        \* per connection: Peer.isAlive of the connection's Peer object
    handled,        \* number of envelopes handled so far
    lastMsg,        \* the envelope handled by the last step, with its connection
    sent,           \* the sends performed by the last step
    fanouts,        \* history: block hash -> number of relay fan-outs caused
    missed,         \* history: per connection, pings sent since its last pong
    evicted,        \* history: connections terminated by the liveness sweep
    sweeps,         \* history: per connection, sweeps since it registered or last answered
    pongs,          \* history: per connection, pings it has answered
    disk,           \* the snapshot file blockchain.json
    booted          \* "no" before start-up, then "genesis" or "loaded"

ledgerVars == <<blocks, blockKeys, transactions, txByAddress, height, tips, genesisHash>>
peerVars == <<peers, wsState, peer, isAlive>>
histVars == <<fanouts, missed, evicted, sweeps, pongs>>
diskVars == <<disk, booted>>
vars == <<blocks, blockKeys, transactions, txByAddress, height, tips, genesisHash,
          peers, wsState, peer, isAlive, handled, lastMsg, sent,
          fanouts, missed, evicted, sweeps, pongs, disk, booted>>

----------------------------------------------------------------------------
(* Bounds *)

\* Envelopes handled in one behaviour.
MaxMsgs == 3

\* Greatest requestedBlocks value of a syncRequest.
MaxReq == 2

\* Greatest value of the missed-ping history counter.
MaxMissed == 2

\* Greatest value of the sweeps-since-last-answer history counter.
MaxSweeps == 2

\* Greatest value of the answered-pings history counter.
MaxPongs == 1

----------------------------------------------------------------------------
(* Values *)

Conns == {"c1", "c2", "c3"}
NodeIds == {"p1", "p2"}

Min(a, b) == IF a <= b THEN a ELSE b

\* A maximum that keeps its second argument: the height then follows the
\* last accepted block down
MaxTakesNew(a, b) == b

Max(a, b) == IF a >= b THEN a ELSE b

\* Transactions that peers broadcast.  T1 and T1x share an id, T2 is a
\* self-transfer, T3 has no fromAddress, T0 has no id.
T1 == [id |-> "t1", fromAddress |-> "A", toAddress |-> "B", amount |-> 5, fee |-> 1]
T1x == [id |-> "t1", fromAddress |-> "B", toAddress |-> "A", amount |-> 3, fee |-> 0]
T2 == [id |-> "t2", fromAddress |-> "A", toAddress |-> "A", amount |-> 2, fee |-> 1]
T3 == [id |-> "t3", fromAddress |-> "", toAddress |-> "B", amount |-> 4, fee |-> 0]
T0 == [id |-> "", fromAddress |-> "A", toAddress |-> "B", amount |-> 7, fee |-> 0]
TxPool == {T1, T1x, T2, T3, T0}

\* A transaction that reuses the id of T1 between other addresses
T1y == [id |-> "t1", fromAddress |-> "B", toAddress |-> "B", amount |-> 1, fee |-> 0]

\* Blocks that peers broadcast.  txShape is "array" when block.transactions
\* is an array, "absent" when the field is missing, and "other" when it is
\* a truthy value that is not an array (forEach is then not a function):
\* B4 carries its one transaction in an object, not in an array.
\* B1 and B1x share a hash; B1 and B3 share a height; B5 embeds the
\* transaction without id before another one; B0 has no hash field.
B1 == [hash |-> "h1", height |-> 1, txShape |-> "array", transactions |-> <<T1>>]
B1x == [hash |-> "h1", height |-> 2, txShape |-> "array", transactions |-> <<T2>>]
B2 == [hash |-> "h2", height |-> 2, txShape |-> "array", transactions |-> <<T1, T3>>]
B3 == [hash |-> "h3", height |-> 1, txShape |-> "absent", transactions |-> <<>>]
B4 == [hash |-> "h4", height |-> 1, txShape |-> "other", transactions |-> <<T2>>]
B5 == [hash |-> "h5", height |-> 2, txShape |-> "array", transactions |-> <<T0, T2>>]
B0 == [hash |-> "", height |-> 1, txShape |-> "array", transactions |-> <<T3>>]
BlockPool == {B1, B1x, B2, B3, B4, B5, B0}

----------------------------------------------------------------------------
(* Ledger helpers *)

\* Some block of the list carries hash h
HasBlock(bs, h) == \E i \in 1..Len(bs) : bs[i].hash = h

\* b.header?.height || 0: every block here carries a header height, and a
\* height of 0 is its own default
HeightOf(b) == b.height

\* txByAddress.get(a).push(id), creating the list on first use
PushIndex(idx, a, id) ==
    IF a \in DOMAIN idx
    THEN [idx EXCEPT ![a] = Append(@, id)]
    ELSE idx @@ (a :> <<id>>)

\* transactions.set(tx.id, tx)
SetTx(txs, tx) ==
    IF tx.id \in DOMAIN txs
    THEN [txs EXCEPT ![tx.id] = tx]
    ELSE txs @@ (tx.id :> tx)

\* The guard of the second push of storeTransaction: the toAddress is
\* indexed when it is present and differs from the fromAddress.
IndexesTo(tx) == tx.toAddress # "" /\ tx.toAddress # tx.fromAddress

\* Faulty variant: the `!tx.id` guard is missing
storeTransactionUnguarded(st, tx) ==
    LET i1 == IF tx.fromAddress # ""
              THEN PushIndex(st.txByAddress, tx.fromAddress, tx.id)
              ELSE st.txByAddress
        i2 == IF IndexesTo(tx)
              THEN PushIndex(i1, tx.toAddress, tx.id)
              ELSE i1
    IN [transactions |-> SetTx(st.transactions, tx), txByAddress |-> i2]

\* storeTransaction(tx) on the pair st = [transactions, txByAddress]
storeTransaction(st, tx) ==
    IF tx.id = "" THEN st
    ELSE LET i1 == IF tx.fromAddress # ""
                   THEN PushIndex(st.txByAddress, tx.fromAddress, tx.id)
                   ELSE st.txByAddress
             i2 == IF IndexesTo(tx)
                   THEN PushIndex(i1, tx.toAddress, tx.id)
                   ELSE i1
         IN [transactions |-> SetTx(st.transactions, tx), txByAddress |-> i2]

\* block.transactions.forEach(tx => storeTransaction(tx))
RECURSIVE StoreAll(_, _)
StoreAll(st, txs) ==
    IF txs = <<>> THEN st
    ELSE StoreAll(storeTransaction(st, Head(txs)), Tail(txs))

\* calculateBalance: the fold over the address's index list
RECURSIVE BalanceFold(_, _, _)
BalanceFold(ids, txs, address) ==
    IF ids = <<>> THEN 0
    ELSE LET id == Head(ids)
             rest == BalanceFold(Tail(ids), txs, address)
         IN IF id \notin DOMAIN txs THEN rest
            ELSE LET tx == txs[id]
                 IN rest
                    + (IF tx.toAddress = address THEN tx.amount ELSE 0)
                    - (IF tx.fromAddress = address THEN tx.amount + tx.fee ELSE 0)

IndexOf(idx, address) == IF address \in DOMAIN idx THEN idx[address] ELSE <<>>

calculateBalance(address) ==
    BalanceFold(IndexOf(txByAddress, address), transactions, address)

----------------------------------------------------------------------------
(* Sync engine *)

\* syncRequest payloads.  hasRequested is FALSE when the requestedBlocks
\* field is absent from the payload.
SyncRequests ==
    [lastKnownBlockHeight : 0..2, userAddress : {"A", "B"},
     hasRequested : {TRUE}, requestedBlocks : 0..MaxReq]
    \cup
    [lastKnownBlockHeight : 0..2, userAddress : {"A", "B"},
     hasRequested : {FALSE}, requestedBlocks : {0}]

\* The default of `syncRequest.requestedBlocks || 100`
DefaultLimit == 100

\* syncRequest.requestedBlocks || 100: an absent field and the number 0
\* are both falsy.
SliceEnd(req) ==
    IF ~req.hasRequested \/ req.requestedBlocks = 0
    THEN DefaultLimit
    ELSE req.requestedBlocks

\* .filter(b => height(b) > (lastKnownBlockHeight || 0))
RECURSIVE FilterAbove(_, _)
FilterAbove(bs, lk) ==
    IF bs = <<>> THEN <<>>
    ELSE IF HeightOf(Head(bs)) > lk
         THEN <<Head(bs)>> \o FilterAbove(Tail(bs), lk)
         ELSE FilterAbove(Tail(bs), lk)

\* Faulty variant: the comparator is reversed (descending heights)
BeforeDescending(a, b) == HeightOf(a) > HeightOf(b)

\* The comparator of the sort: a is placed before b when
\* height(a) - height(b) is negative.
Before(a, b) == HeightOf(a) < HeightOf(b)

\* Insertion of b into a sorted sequence, after every element that is not
\* strictly after it (Array.prototype.sort is stable).
RECURSIVE InsertSorted(_, _)
InsertSorted(s, b) ==
    IF s = <<>> THEN <<b>>
    ELSE IF Before(b, Head(s))
         THEN <<b>> \o s
         ELSE <<Head(s)>> \o InsertSorted(Tail(s), b)

\* .sort((a, b) => height(a) - height(b))
RECURSIVE SortByHeight(_)
SortByHeight(bs) ==
    IF bs = <<>> THEN <<>>
    ELSE InsertSorted(SortByHeight(SubSeq(bs, 1, Len(bs) - 1)), bs[Len(bs)])

\* .slice(0, n) for n >= 0
Slice(s, n) == SubSeq(s, 1, Min(n, Len(s)))

\* The blocks of the sync response
SyncBlocks(req) ==
    Slice(SortByHeight(FilterAbove(blocks, req.lastKnownBlockHeight)), SliceEnd(req))

\* Faulty variant: the list is returned newest first
RECURSIVE ResolveNewestFirst(_, _)
ResolveNewestFirst(ids, txs) ==
    IF ids = <<>> THEN <<>>
    ELSE IF Head(ids) \in DOMAIN txs
         THEN ResolveNewestFirst(Tail(ids), txs) \o <<txs[Head(ids)]>>
         ELSE ResolveNewestFirst(Tail(ids), txs)

\* userTxIds.map(id => transactions.get(id)).filter(tx => tx != null)
RECURSIVE Resolve(_, _)
Resolve(ids, txs) ==
    IF ids = <<>> THEN <<>>
    ELSE IF Head(ids) \in DOMAIN txs
         THEN <<txs[Head(ids)]>> \o Resolve(Tail(ids), txs)
         ELSE Resolve(Tail(ids), txs)

\* The decoded payload of the syncResponse
SyncResponse(req) ==
    [kind |-> "syncResponse",
     blocks |-> SyncBlocks(req),
     userTransactions |-> Resolve(IndexOf(txByAddress, req.userAddress), transactions),
     currentHeight |-> height,
     address |-> req.userAddress,
     balance |-> calculateBalance(req.userAddress)]

----------------------------------------------------------------------------
(* Genesis bootstrap *)

\* initialSupply, in Object.entries order
InitialSupply ==
    << <<"treasury", 100000000>>, <<"team", 20000000>>,
       <<"validators", 10000000>>, <<"community_rewards", 30000000>>,
       <<"liquidity_pool", 40000000>> >>

GenesisTxId(index) ==
    CASE index = 0 -> "genesis-tx-0"
      [] index = 1 -> "genesis-tx-1"
      [] index = 2 -> "genesis-tx-2"
      [] index = 3 -> "genesis-tx-3"
      [] OTHER -> "genesis-tx-4"

\* Faulty variant: the allocation is sent from the bucket to itself
GenesisTxSelf(index) ==
    [id |-> GenesisTxId(index), fromAddress |-> InitialSupply[index + 1][1],
     toAddress |-> InitialSupply[index + 1][1],
     amount |-> InitialSupply[index + 1][2], fee |-> 0]

GenesisTx(index) ==
    [id |-> GenesisTxId(index), fromAddress |-> "genesis",
     toAddress |-> InitialSupply[index + 1][1],
     amount |-> InitialSupply[index + 1][2], fee |-> 0]

GenesisTransactions == [i \in 1..Len(InitialSupply) |-> GenesisTx(i - 1)]

\* The sha256 digest of the seed string and the bootstrap timestamp
GenesisHash == "genesis"

GenesisBlock ==
    [hash |-> GenesisHash, height |-> 0, txShape |-> "array",
     transactions |-> GenesisTransactions]

EmptyStore == [transactions |-> <<>>, txByAddress |-> <<>>]

\* The ledger after createGenesisBlock on the empty store
GenesisStore == StoreAll(EmptyStore, GenesisTransactions)

----------------------------------------------------------------------------
(* Snapshot file *)

\* No file at the snapshot path
NoFile == [kind |-> "none"]

\* A file that JSON.parse rejects: what writeFileSync leaves when it fails
\* after it has opened and truncated the file
Unparsable == [kind |-> "unparsable"]

\* JSON has no undefined: JSON.stringify writes an undefined element of an
\* array as null and JSON.parse reads null back.  Every other value the
\* ledger holds was itself parsed from JSON, or is a string or a finite
\* number built by createGenesisBlock, and is read back as written.  The
\* one value that can be undefined inside an array is the key of a block
\* stored without a hash: as a key of the block table, "" is undefined.
JsonNull == "null-key"

\* A key of the block table after JSON.stringify and JSON.parse
JsonKey(k) == IF k = "" THEN JsonNull ELSE k

\* Array.from(blockchain.blocks.entries()), stringified and parsed
BlockEntries(ks, bs) ==
    [i \in 1..Len(bs) |-> [key |-> JsonKey(ks[i]), block |-> bs[i]]]

\* The file saveBlockchain writes for a ledger, as JSON.parse reads it
Snapshot(ks, bs, txs, idx, h, tp, g) ==
    [kind |-> "snapshot", blocks |-> BlockEntries(ks, bs), transactions |-> txs,
     txByAddress |-> idx, height |-> h, tips |-> tp, genesisHash |-> g]

\* The ledger loadBlockchain builds from a snapshot: new Map(data.blocks),
\* new Map(data.transactions), new Map(data.txByAddress), data.height,
\* new Set(data.tips), data.genesisHash
Loaded(file) ==
    [blocks |-> [i \in 1..Len(file.blocks) |-> file.blocks[i].block],
     blockKeys |-> [i \in 1..Len(file.blocks) |-> file.blocks[i].key],
     transactions |-> file.transactions,
     txByAddress |-> file.txByAddress,
     height |-> file.height,
     tips |-> file.tips,
     genesisHash |-> file.genesisHash]

\* The snapshot of the ledger createGenesisBlock builds
GenesisSnapshot ==
    Snapshot(<<GenesisHash>>, <<GenesisBlock>>, GenesisStore.transactions,
             GenesisStore.txByAddress, 0, {GenesisHash}, GenesisHash)

\* A snapshot left by an earlier node: its own genesis block, whose hash
\* was taken at another time, block B1 and the transactions of both
OldGenesisHash == "genesis-old"

OldGenesisBlock == [GenesisBlock EXCEPT !.hash = OldGenesisHash]

OldStore == StoreAll(GenesisStore, B1.transactions)

OldSnapshot ==
    Snapshot(<<OldGenesisHash, B1.hash>>, <<OldGenesisBlock, B1>>,
             OldStore.transactions, OldStore.txByAddress, 1, {OldGenesisHash},
             OldGenesisHash)

\* How many of the six ledger fields loadBlockchain assigns, in the order
\* blocks, transactions, txByAddress, height, tips, genesisHash, before a
\* statement throws on a file that parses: none when data.blocks is not
\* iterable, all six when only `new Date(data.savedAt).toISOString()`
\* throws
FieldsRead == 0..6

\* A file that parses and on which loadBlockchain throws after it has
\* assigned the first n fields
Misshapen(n) == [kind |-> "misshapen", data |-> OldSnapshot, good |-> n]

\* The files a process can find when it starts for the first time
StartFiles == {NoFile} \cup {Misshapen(n) : n \in FieldsRead}

----------------------------------------------------------------------------
(* Envelopes *)

\* A payload that does not decode (base64 / JSON.parse throws, or it
\* decodes to null and the first field access throws)
Malformed == [kind |-> "malformed"]

\* The payload of an envelope whose handler reads none
NoPayload == [kind |-> "none"]

Envelope(id, type, senderId, payload) ==
    [id |-> id, type |-> type, senderId |-> senderId, payload |-> payload]

\* lastMsg before any envelope, and after a step that handles none
NoMsg == [conn |-> "", env |-> Envelope("", "", "", NoPayload)]

\* generateMessageId()
FreshId == "msg-fresh"

\* A ping frame, as an entry of `sent`
Ping == Envelope("", "ping", "seed_node", NoPayload)

\* The envelope the node builds in reply to one it received
Reply(id, type, payload) == Envelope(id, type, "seed_node", payload)

----------------------------------------------------------------------------
(* Peer registry *)

\* peers.set(nodeId, peer)
SetPeer(ps, nodeId, c) ==
    IF nodeId \in DOMAIN ps
    THEN [ps EXCEPT ![nodeId] = c]
    ELSE ps @@ (nodeId :> c)

\* Faulty variant: the entry is left in the registry
DeletePeerKeeps(ps, nodeId) == ps

\* peers.delete(nodeId)
DeletePeer(ps, nodeId) == [n \in (DOMAIN ps) \ {nodeId} |-> ps[n]]

\* Faulty variant: every envelope with a senderId registers its connection
\* under that id
RegistersAlways(c, msg) == msg.senderId # ""

\* `!peer && senderId`: the connection registers on this envelope
Registers(c, msg) == peer[c] = "" /\ msg.senderId # ""

\* peers after the registration step of handleMessage
PeersAfter(c, msg) ==
    IF Registers(c, msg) THEN SetPeer(peers, msg.senderId, c) ELSE peers

\* Faulty variant: the sender's own entry is not excluded
RelayToAll(ps, nodeId, excludeNodeId) == wsState[ps[nodeId]] = "open"

\* The test of broadcastToPeers: the entry is not the excluded one and its
\* transport is open
RelayTo(ps, nodeId, excludeNodeId) ==
    nodeId # excludeNodeId /\ wsState[ps[nodeId]] = "open"

\* The connections broadcastToPeers(message, excludeNodeId) sends to
Recipients(ps, excludeNodeId) ==
    {ps[n] : n \in {m \in DOMAIN ps : RelayTo(ps, m, excludeNodeId)}}

\* The sends of broadcastToPeers(message, message.senderId)
broadcastToPeers(ps, msg) ==
    {[to |-> r, env |-> msg] : r \in Recipients(ps, msg.senderId)}

\* Array.from(peers.values()).find(p => p.ws === ws)
Registered(c) == \E n \in DOMAIN peers : peers[n] = c

\* One more fan-out recorded for block hash h
Bump(f, h) == IF h \in DOMAIN f THEN [f EXCEPT ![h] = @ + 1] ELSE f @@ (h :> 1)

----------------------------------------------------------------------------
(* Initial state: no snapshot was on disk, createGenesisBlock has run and   *)
(* saved, no connection yet                                                *)

Init ==
    /\ blocks = <<GenesisBlock>>
    /\ blockKeys = <<GenesisHash>>
    /\ transactions = GenesisStore.transactions
    /\ txByAddress = GenesisStore.txByAddress
    /\ height = 0
    /\ tips = {GenesisHash}
    /\ genesisHash = GenesisHash
    /\ peers = <<>>
    /\ wsState = [c \in Conns |-> "none"]
    /\ peer = [c \in Conns |-> ""]
    /\ isAlive = [c \in Conns |-> FALSE]
    /\ handled = 0
    /\ lastMsg = NoMsg
    /\ sent = {}
    /\ fanouts = <<>>
    /\ missed = [c \in Conns |-> 0]
    /\ evicted = {}
    /\ sweeps = [c \in Conns |-> 0]
    /\ pongs = [c \in Conns |-> 0]
    /\ disk = GenesisSnapshot
    /\ booted = "genesis"

----------------------------------------------------------------------------
(* Connection events *)

\* wss.on('connection'): a new transport, `let peer = null`
Connect(c) ==
    /\ booted # "no"
    /\ wsState[c] = "none"
    /\ wsState' = [wsState EXCEPT ![c] = "open"]
    /\ lastMsg' = NoMsg
    /\ sent' = {}
    /\ UNCHANGED <<ledgerVars, peers, peer, isAlive, handled, histVars, diskVars>>

\* The transport leaves the OPEN ready state (a close frame arrived or the
\* socket broke); its 'close' event has not been emitted yet.
BeginClose(c) ==
    /\ wsState[c] = "open"
    /\ wsState' = [wsState EXCEPT ![c] = "closing"]
    /\ lastMsg' = NoMsg
    /\ sent' = {}
    /\ UNCHANGED <<ledgerVars, peers, peer, isAlive, handled, histVars, diskVars>>

\* ws.on('close')
CloseEvent(c) ==
    /\ wsState[c] = "closing"
    /\ wsState' = [wsState EXCEPT ![c] = "closed"]
    /\ peers' = IF peer[c] # "" THEN DeletePeer(peers, peer[c]) ELSE peers
    /\ lastMsg' = NoMsg
    /\ sent' = {}
    /\ UNCHANGED <<ledgerVars, peer, isAlive, handled, histVars, diskVars>>

\* Faulty variant: the pong handler does not revive the peer
PongLeavesDead == FALSE

\* The value the pong handler gives peer.isAlive
PongAlive == TRUE

\* ws.on('pong')
Pong(c) ==
    /\ wsState[c] = "open"
    /\ isAlive' = IF peer[c] # "" THEN [isAlive EXCEPT ![c] = PongAlive] ELSE isAlive
    /\ missed' = [missed EXCEPT ![c] = 0]
    /\ sweeps' = [sweeps EXCEPT ![c] = 0]
    /\ pongs' = [pongs EXCEPT ![c] = IF missed[c] > 0 THEN Min(@ + 1, MaxPongs) ELSE @]
    /\ lastMsg' = NoMsg
    /\ sent' = {}
    /\ UNCHANGED <<ledgerVars, peers, wsState, peer, handled, fanouts, evicted, diskVars>>

\* Faulty variant: the sweep takes every registered peer for dead
IsDeadAlways(c) == TRUE

\* The eviction test of the sweep: peer.isAlive === false
IsDead(c) == isAlive[c] = FALSE

\* The liveness sweep (setInterval, 30 s) over wss.clients
Sweep ==
    LET clients == {c \in Conns : wsState[c] \in {"open", "closing"}}
        found == {c \in clients : Registered(c)}
        dead == {c \in found : IsDead(c)}
        pinged == found \ dead
    IN /\ peers' = [n \in {m \in DOMAIN peers : peers[m] \notin dead} |-> peers[n]]
       /\ wsState' = [c \in Conns |-> IF c \in dead THEN "closing" ELSE wsState[c]]
       /\ isAlive' = [c \in Conns |-> IF c \in pinged THEN FALSE ELSE isAlive[c]]
       /\ missed' = [c \in Conns |->
                       IF c \in pinged THEN Min(missed[c] + 1, MaxMissed) ELSE missed[c]]
       /\ evicted' = evicted \cup dead
       /\ sweeps' = [c \in Conns |->
                       IF wsState[c] = "open" /\ peer[c] # ""
                       THEN Min(sweeps[c] + 1, MaxSweeps) ELSE sweeps[c]]
       /\ sent' = {[to |-> c, env |-> Ping] : c \in {d \in pinged : wsState[d] = "open"}}
       /\ lastMsg' = NoMsg
       /\ UNCHANGED <<ledgerVars, peer, handled, fanouts, pongs, diskVars>>

----------------------------------------------------------------------------
(* Start-up and persistence *)

\* The process before its start-up code has run: the ledger object as
\* declared, an empty registry, no connection
InitBoot ==
    /\ blocks = <<>>
    /\ blockKeys = <<>>
    /\ transactions = <<>>
    /\ txByAddress = <<>>
    /\ height = 0
    /\ tips = {}
    /\ genesisHash = ""
    /\ peers = <<>>
    /\ wsState = [c \in Conns |-> "none"]
    /\ peer = [c \in Conns |-> ""]
    /\ isAlive = [c \in Conns |-> FALSE]
    /\ handled = 0
    /\ lastMsg = NoMsg
    /\ sent = {}
    /\ fanouts = <<>>
    /\ missed = [c \in Conns |-> 0]
    /\ evicted = {}
    /\ sweeps = [c \in Conns |-> 0]
    /\ pongs = [c \in Conns |-> 0]
    /\ disk \in StartFiles
    /\ booted = "no"

\* What a call of saveBlockchain does to the file: it writes it, or throws
\* before the file is opened (ensureDataDirectory, or the open itself), or
\* throws while writing.  The error is caught and logged.
SaveOutcomes == {"written", "untouched", "truncated"}

\* fs.writeFileSync(filePath, data) with outcome o
WriteFile(o, data) ==
    IF o = "written" THEN data
    ELSE IF o = "truncated" THEN Unparsable
    ELSE disk

\* Faulty variant: the snapshot is taken from a ledger that was emptied
SavedAfterTeardown(o) == WriteFile(o, Snapshot(<<>>, <<>>, <<>>, <<>>, 0, {}, ""))

\* The file after saveBlockchain with outcome o
Saved(o) ==
    WriteFile(o, Snapshot(blockKeys, blocks, transactions, txByAddress, height,
                          tips, genesisHash))

\* The ledger loadBlockchain leaves when it returns false: untouched when
\* the file is absent or JSON.parse throws, and with the fields assigned
\* before the throw replaced when a later statement throws
FailedLoad(file) ==
    LET n == IF file.kind = "misshapen" THEN file.good ELSE 0
        ld == Loaded(file.data)
    IN [blocks |-> IF n >= 1 THEN ld.blocks ELSE blocks,
        blockKeys |-> IF n >= 1 THEN ld.blockKeys ELSE blockKeys,
        transactions |-> IF n >= 2 THEN ld.transactions ELSE transactions,
        txByAddress |-> IF n >= 3 THEN ld.txByAddress ELSE txByAddress,
        height |-> IF n >= 4 THEN ld.height ELSE height,
        tips |-> IF n >= 5 THEN ld.tips ELSE tips,
        genesisHash |-> IF n >= 6 THEN ld.genesisHash ELSE genesisHash]

\* createGenesisBlock on the ledger l the failed load left, followed by its
\* saveBlockchain
CreateGenesisBlock(l, o) ==
    LET st == StoreAll([transactions |-> l.transactions, txByAddress |-> l.txByAddress],
                       GenesisTransactions)
    IN /\ blocks' = Append(l.blocks, GenesisBlock)
       /\ blockKeys' = Append(l.blockKeys, GenesisHash)
       /\ transactions' = st.transactions
       /\ txByAddress' = st.txByAddress
       /\ height' = 0
       /\ tips' = l.tips \cup {GenesisHash}
       /\ genesisHash' = GenesisHash
       /\ disk' = WriteFile(o, Snapshot(blockKeys', blocks', transactions',
                                        txByAddress', height', tips', genesisHash'))

\* loadBlockchain on a snapshot file
LoadBlockchain ==
    LET st == Loaded(disk)
    IN /\ blocks' = st.blocks
       /\ blockKeys' = st.blockKeys
       /\ transactions' = st.transactions
       /\ txByAddress' = st.txByAddress
       /\ height' = st.height
       /\ tips' = st.tips
       /\ genesisHash' = st.genesisHash
       /\ UNCHANGED disk

\* `const loaded = loadBlockchain(); if (!loaded) createGenesisBlock();`
Startup ==
    /\ booted = "no"
    /\ IF disk.kind = "snapshot"
       THEN LoadBlockchain /\ booted' = "loaded"
       ELSE /\ \E o \in SaveOutcomes : CreateGenesisBlock(FailedLoad(disk), o)
            /\ booted' = "genesis"
    /\ lastMsg' = NoMsg
    /\ sent' = {}
    /\ UNCHANGED <<peerVars, handled, histVars>>

\* Faulty variant: the timer gives up once a save has left a broken file
AutoSaveStopsAfterFailure ==
    /\ booted # "no"
    /\ Len(blocks) > 0
    /\ disk.kind # "unparsable"
    /\ \E o \in SaveOutcomes : disk' = Saved(o)
    /\ lastMsg' = NoMsg
    /\ sent' = {}
    /\ UNCHANGED <<ledgerVars, peerVars, handled, histVars, booted>>

\* The auto-save timer (setInterval, 60 s): saveBlockchain when the block
\* table is not empty
AutoSave ==
    /\ booted # "no"
    /\ Len(blocks) > 0
    /\ \E o \in SaveOutcomes : disk' = Saved(o)
    /\ lastMsg' = NoMsg
    /\ sent' = {}
    /\ UNCHANGED <<ledgerVars, peerVars, handled, histVars, booted>>

\* SIGINT / SIGTERM: saveBlockchain, then the process exits.  The state
\* that follows is that of the next process before its start-up: a fresh
\* ledger object and registry, every transport of the old process gone.
Shutdown ==
    /\ booted # "no"
    /\ \E o \in SaveOutcomes : disk' = Saved(o)
    /\ booted' = "no"
    /\ blocks' = <<>>
    /\ blockKeys' = <<>>
    /\ transactions' = <<>>
    /\ txByAddress' = <<>>
    /\ height' = 0
    /\ tips' = {}
    /\ genesisHash' = ""
    /\ peers' = <<>>
    /\ wsState' = [c \in Conns |-> IF wsState[c] = "none" THEN "none" ELSE "closed"]
    /\ peer' = [c \in Conns |-> ""]
    /\ isAlive' = [c \in Conns |-> FALSE]
    /\ lastMsg' = NoMsg
    /\ sent' = {}
    /\ UNCHANGED <<handled, histVars>>

----------------------------------------------------------------------------
(* Message router *)

\* ws.on('message') fires while the transport is open, and also once it
\* has left the OPEN ready state and its 'close' event is still to come:
\* frames that were buffered when the socket closed are delivered then.
Receiving(c) == wsState[c] \in {"open", "closing"}

\* The part of handleMessage every envelope goes through: the connection
\* registers on its first envelope with a senderId, and the envelope is
\* then dispatched by type.
Route(c, msg) ==
    /\ Receiving(c)
    /\ handled < MaxMsgs
    /\ handled' = handled + 1
    /\ lastMsg' = [conn |-> c, env |-> msg]
    /\ peers' = PeersAfter(c, msg)
    /\ peer' = IF Registers(c, msg) THEN [peer EXCEPT ![c] = msg.senderId] ELSE peer
    /\ isAlive' = IF Registers(c, msg) THEN [isAlive EXCEPT ![c] = TRUE] ELSE isAlive
    /\ missed' = IF Registers(c, msg) THEN [missed EXCEPT ![c] = 0] ELSE missed
    /\ UNCHANGED <<wsState, evicted, sweeps, pongs, diskVars>>

\* handleHandshake
HandleHandshake(c, msg) ==
    /\ msg.type = "handshake"
    /\ Route(c, msg)
    /\ sent' = {[to |-> c,
                 env |-> Reply(FreshId, "handshake",
                               [kind |-> "handshake", nodeId |-> "seed_node",
                                currentHeight |-> height])]}
    /\ UNCHANGED <<ledgerVars, fanouts>>

\* Faulty variant: every reply gets a generated id, the request's id is lost
ResponseIdFresh(msg) == FreshId

\* message.id || generateMessageId()
ResponseId(msg) == IF msg.id # "" THEN msg.id ELSE FreshId

\* Faulty variant: the node adopts the height the requester reports
HandleSyncRequestAdopting(c, msg) ==
    /\ msg.type = "syncRequest"
    /\ Route(c, msg)
    /\ sent' = IF msg.payload = Malformed
               THEN {}
               ELSE {[to |-> c,
                      env |-> Reply(ResponseId(msg), "syncResponse",
                                    SyncResponse(msg.payload))]}
    /\ height' = IF msg.payload = Malformed
                 THEN height
                 ELSE Max(height, msg.payload.lastKnownBlockHeight)
    /\ UNCHANGED <<blocks, blockKeys, transactions, txByAddress, tips, genesisHash,
                   fanouts>>

\* handleSyncRequest
HandleSyncRequest(c, msg) ==
    /\ msg.type = "syncRequest"
    /\ Route(c, msg)
    /\ sent' = IF msg.payload = Malformed
               THEN {}
               ELSE {[to |-> c,
                      env |-> Reply(ResponseId(msg), "syncResponse",
                                    SyncResponse(msg.payload))]}
    /\ UNCHANGED <<ledgerVars, fanouts>>

\* Faulty variant: the dedup test compares the whole block, not its hash
AlreadyHaveSameBlock(block) == \E i \in 1..Len(blocks) : blocks[i] = block

\* Faulty variant: the dedup test is missing
AlreadyHaveNever(block) == FALSE

\* blockchain.blocks.has(block.hash)
AlreadyHave(block) == \E i \in 1..Len(blockKeys) : blockKeys[i] = block.hash

\* handleBlockBroadcast
HandleBlockBroadcast(c, msg) ==
    /\ msg.type = "blockBroadcast"
    /\ Route(c, msg)
    /\ LET block == msg.payload
       IN IF block = Malformed \/ AlreadyHave(block)
          THEN /\ sent' = {}
               /\ UNCHANGED <<ledgerVars, fanouts>>
          ELSE /\ blocks' = Append(blocks, block)
               /\ blockKeys' = Append(blockKeys, block.hash)
               /\ height' = Max(height, HeightOf(block))
               /\ UNCHANGED <<tips, genesisHash>>
               /\ IF block.txShape = "other"
                  THEN \* forEach is not a function: caught, nothing relayed
                       /\ sent' = {}
                       /\ UNCHANGED <<transactions, txByAddress, fanouts>>
                  ELSE LET st == StoreAll([transactions |-> transactions,
                                           txByAddress |-> txByAddress],
                                          block.transactions)
                       IN /\ transactions' = st.transactions
                          /\ txByAddress' = st.txByAddress
                          /\ sent' = broadcastToPeers(PeersAfter(c, msg), msg)
                          /\ fanouts' = Bump(fanouts, block.hash)

\* Faulty variant: the envelope is relayed before its payload is decoded
HandleTransactionBroadcastEager(c, msg) ==
    /\ msg.type = "transactionBroadcast"
    /\ Route(c, msg)
    /\ sent' = broadcastToPeers(PeersAfter(c, msg), msg)
    /\ IF msg.payload = Malformed
       THEN UNCHANGED <<ledgerVars, fanouts>>
       ELSE LET st == storeTransaction([transactions |-> transactions,
                                        txByAddress |-> txByAddress],
                                       msg.payload)
            IN /\ transactions' = st.transactions
               /\ txByAddress' = st.txByAddress
               /\ UNCHANGED <<blocks, blockKeys, height, tips, genesisHash, fanouts>>

\* Faulty variant: a transaction whose id is already in the table is stored
\* again but not relayed
HandleTransactionBroadcastOnce(c, msg) ==
    /\ msg.type = "transactionBroadcast"
    /\ Route(c, msg)
    /\ IF msg.payload = Malformed
       THEN /\ sent' = {}
            /\ UNCHANGED <<ledgerVars, fanouts>>
       ELSE LET st == storeTransaction([transactions |-> transactions,
                                        txByAddress |-> txByAddress],
                                       msg.payload)
            IN /\ transactions' = st.transactions
               /\ txByAddress' = st.txByAddress
               /\ sent' = IF msg.payload.id \in DOMAIN transactions
                          THEN {}
                          ELSE broadcastToPeers(PeersAfter(c, msg), msg)
               /\ UNCHANGED <<blocks, blockKeys, height, tips, genesisHash, fanouts>>

\* handleTransactionBroadcast
HandleTransactionBroadcast(c, msg) ==
    /\ msg.type = "transactionBroadcast"
    /\ Route(c, msg)
    /\ IF msg.payload = Malformed
       THEN /\ sent' = {}
            /\ UNCHANGED <<ledgerVars, fanouts>>
       ELSE LET st == storeTransaction([transactions |-> transactions,
                                        txByAddress |-> txByAddress],
                                       msg.payload)
            IN /\ transactions' = st.transactions
               /\ txByAddress' = st.txByAddress
               /\ sent' = broadcastToPeers(PeersAfter(c, msg), msg)
               /\ UNCHANGED <<blocks, blockKeys, height, tips, genesisHash, fanouts>>

\* handleHeartbeat
HandleHeartbeat(c, msg) ==
    /\ msg.type = "heartbeat"
    /\ Route(c, msg)
    /\ sent' = {[to |-> c,
                 env |-> Reply(FreshId, "heartbeat",
                               [kind |-> "heartbeat", height |-> height,
                                peerCount |-> Cardinality(DOMAIN PeersAfter(c, msg))])]}
    /\ UNCHANGED <<ledgerVars, fanouts>>

\* The default branch of the switch: an unrecognized type is logged
HandleUnknown(c, msg) ==
    /\ msg.type = "unknown"
    /\ Route(c, msg)
    /\ sent' = {}
    /\ UNCHANGED <<ledgerVars, fanouts>>

\* handleMessage: the dispatch on message.type
HandleMessage(c, msg) ==
    \/ HandleHandshake(c, msg)
    \/ HandleSyncRequest(c, msg)
    \/ HandleBlockBroadcast(c, msg)
    \/ HandleTransactionBroadcast(c, msg)
    \/ HandleHeartbeat(c, msg)
    \/ HandleUnknown(c, msg)

----------------------------------------------------------------------------
(* Inputs *)

\* The envelopes of the ledger specification, all from sender "p1"
LedgerMsgs ==
    {Envelope("m1", "blockBroadcast", "p1", b) : b \in BlockPool \cup {Malformed}}
    \cup {Envelope("m1", "transactionBroadcast", "p1", t) : t \in TxPool \cup {Malformed}}
    \cup {Envelope("m1", "syncRequest", "p1", r) : r \in SyncRequests \cup {Malformed}}
    \cup {Envelope("", "syncRequest", "p1", r) :
            r \in {q \in SyncRequests : q.lastKnownBlockHeight = 0 /\ ~q.hasRequested}}
    \cup {Envelope("m1", t, "p1", NoPayload) : t \in {"handshake", "heartbeat", "unknown"}}

\* The envelopes of the relay specification: block B1 under every sender
\* id, the absent one included, block B4 from one sender, and a transaction
\* from a sender with an id and from one without
RelayMsgs ==
    {Envelope("m1", "blockBroadcast", n, B1) : n \in NodeIds \cup {""}}
    \cup {Envelope("m1", "blockBroadcast", "p1", B4)}
    \cup {Envelope("m1", "transactionBroadcast", n, T1) : n \in {"p1", ""}}

\* The envelopes of the liveness specification
LiveMsgs == {Envelope("m1", "handshake", n, NoPayload) : n \in NodeIds \cup {""}}

\* The envelopes of the error-handling specification: each payload-bearing
\* type with a payload that decodes and one that does not, and a second
\* transaction under the id of the first
DropMsgs ==
    {Envelope("m1", "blockBroadcast", n, b) : n \in NodeIds, b \in {B1, Malformed}}
    \cup {Envelope("m1", "transactionBroadcast", n, t) : n \in NodeIds, t \in {T1, T1y, Malformed}}
    \cup {Envelope("m1", "syncRequest", n, r) :
            n \in NodeIds,
            r \in {[lastKnownBlockHeight |-> 0, userAddress |-> "A",
                    hasRequested |-> FALSE, requestedBlocks |-> 0], Malformed}}

\* The envelopes of the persistence specification
BootMsgs ==
    {Envelope("m1", "blockBroadcast", "p1", b) : b \in {B1, B0}}
    \cup {Envelope("m1", "transactionBroadcast", "p1", T1)}

\* The connections of the persistence specification
BootConns == {"c1", "c2"}

\* The connections of the liveness specification
LiveConns == {"c1", "c2"}

----------------------------------------------------------------------------
(* Specifications *)

\* The ledger under every envelope, on one connection
Next ==
    \/ Connect("c1")
    \/ \E msg \in LedgerMsgs : HandleMessage("c1", msg)

Spec == Init /\ [][Next]_vars

\* Relay fan-out: connections open, register, broadcast and close
NextRelay ==
    \/ \E c \in Conns : Connect(c)
    \/ \E c \in Conns : BeginClose(c)
    \/ \E c \in Conns : CloseEvent(c)
    \/ \E c \in Conns, msg \in RelayMsgs : HandleBlockBroadcast(c, msg)
    \/ \E c \in Conns, msg \in RelayMsgs : HandleTransactionBroadcast(c, msg)

SpecRelay == Init /\ [][NextRelay]_vars

\* Liveness: connections open, register, answer pings or not, are swept
\* and close
NextLive ==
    \/ \E c \in LiveConns : Connect(c)
    \/ \E c \in LiveConns : BeginClose(c)
    \/ \E c \in LiveConns : CloseEvent(c)
    \/ \E c \in LiveConns : Pong(c)
    \/ Sweep
    \/ \E c \in LiveConns, msg \in LiveMsgs : HandleHandshake(c, msg)

SpecLive == Init /\ [][NextLive]_vars

\* Error handling: several registered peers, payloads that do not decode
NextDrop ==
    \/ \E c \in Conns : Connect(c)
    \/ \E c \in Conns, msg \in DropMsgs : HandleSyncRequest(c, msg)
    \/ \E c \in Conns, msg \in DropMsgs : HandleBlockBroadcast(c, msg)
    \/ \E c \in Conns, msg \in DropMsgs : HandleTransactionBroadcast(c, msg)

SpecDrop == Init /\ [][NextDrop]_vars

\* Persistence: the process starts, stores broadcasts, saves, exits and
\* starts again
NextBoot ==
    \/ Startup
    \/ AutoSave
    \/ Shutdown
    \/ \E c \in BootConns : Connect(c)
    \/ \E c \in BootConns, msg \in BootMsgs : HandleBlockBroadcast(c, msg)
    \/ \E c \in BootConns, msg \in BootMsgs : HandleTransactionBroadcast(c, msg)

SpecBoot == InitBoot /\ [][NextBoot]_vars

----------------------------------------------------------------------------
(* Properties of the ledger store *)

\* The addresses balances are asked for
BalanceAddresses == {"A", "B", "genesis", "treasury", "team"}

\* Sum over the transaction table of amount where toAddress = a, minus
\* amount + fee where fromAddress = a
RECURSIVE TableSum(_, _)
TableSum(ids, a) ==
    IF ids = {} THEN 0
    ELSE LET id == CHOOSE x \in ids : TRUE
             tx == transactions[id]
         IN (IF tx.toAddress = a THEN tx.amount ELSE 0)
            - (IF tx.fromAddress = a THEN tx.amount + tx.fee ELSE 0)
            + TableSum(ids \ {id}, a)

\* An id occurs at most once in the sequence
NoRepeat(ids) == \A i, j \in 1..Len(ids) : ids[i] = ids[j] => i = j

\* The step handles an envelope of the given type with a decodable payload
Handles(type) ==
    /\ handled' # handled
    /\ lastMsg'.env.type = type
    /\ lastMsg'.env.payload # Malformed

\* C1: in every reachable state, for every address a, calculateBalance(a)
\* is the sum of amount over the stored transactions with toAddress = a
\* minus the sum of amount + fee over those with fromAddress = a.
C1_BalanceIsTableSum ==
    \A a \in BalanceAddresses :
        calculateBalance(a) = TableSum(DOMAIN transactions, a)

\* C2: a blockBroadcast whose block hash is already in the block table
\* leaves height, block table, transaction table and address index (and
\* tips, genesis hash) exactly as they were.
C2_KnownHashIsNoOp ==
    [][(Handles("blockBroadcast") /\ HasBlock(blocks, lastMsg'.env.payload.hash))
        => UNCHANGED ledgerVars]_vars

\* C2 witness: the envelope carrying B1x (hash h1) has been handled while
\* the block stored under h1 is still B1.
C2_Witness ==
    /\ lastMsg.env.type = "blockBroadcast"
    /\ lastMsg.env.payload = B1x
    /\ \E i \in 1..Len(blocks) : blocks[i] = B1

\* C3: in every reachable state no transaction id occurs more than once in
\* the address-index list of any address.
C3_IndexHasNoRepeats ==
    \A a \in DOMAIN txByAddress : NoRepeat(txByAddress[a])

\* C4: delivering the transactionBroadcast envelope that was just
\* delivered once more leaves the ledger store as it was.
C4_RedeliveryIsNoOp ==
    [][(Handles("transactionBroadcast") /\ lastMsg'.env = lastMsg.env)
        => UNCHANGED ledgerVars]_vars

----------------------------------------------------------------------------
(* Properties of the relay *)

\* The last step handled a broadcast envelope
LastWasBroadcast ==
    lastMsg.env.type \in {"blockBroadcast", "transactionBroadcast"}

\* The open registry entries other than the one keyed by nodeId
OpenOthers(nodeId) ==
    {peers[n] : n \in {m \in DOMAIN peers : m # nodeId /\ wsState[peers[m]] = "open"}}

\* C5: a relayed broadcast envelope is never sent to the registry entry
\* keyed by its senderId, and when it is relayed it goes to every other
\* entry with an open transport, whatever the envelope carries.
C5_RelayExcludesSender ==
    LastWasBroadcast =>
        LET sender == lastMsg.env.senderId
        IN /\ \A s \in sent :
                /\ s.env = lastMsg.env
                /\ ~(sender \in DOMAIN peers /\ peers[sender] = s.to)
           /\ sent # {} => {s.to : s \in sent} = OpenOthers(sender)

\* C5 witness: an envelope was relayed to some peer while the registry
\* entry keyed by its senderId has an open transport.
C5_Witness ==
    /\ LastWasBroadcast
    /\ sent # {}
    /\ lastMsg.env.senderId \in DOMAIN peers
    /\ wsState[peers[lastMsg.env.senderId]] = "open"

----------------------------------------------------------------------------
(* Properties of the sync response *)

\* The last step answered a syncRequest
LastWasSync ==
    /\ lastMsg.env.type = "syncRequest"
    /\ lastMsg.env.payload # Malformed

\* The request and the blocks of the response of the last step
LastRequest == lastMsg.env.payload
LastBlocks == (CHOOSE s \in sent : TRUE).env.payload.blocks

\* The stored blocks a request is entitled to: height > lastKnownBlockHeight
Eligible(req) ==
    {i \in 1..Len(blocks) : HeightOf(blocks[i]) > req.lastKnownBlockHeight}

\* The limit a request states: requestedBlocks, or 100 when it is absent
StatedLimit(req) == IF req.hasRequested THEN req.requestedBlocks ELSE DefaultLimit

\* bs is a list of the first k eligible stored blocks in ascending height
\* order: distinct eligible blocks, heights not descending, no eligible
\* block left out that is lower than one listed.
IsLowestK(bs, req, k) ==
    /\ Len(bs) = k
    /\ \A i \in 1..Len(bs) : \E j \in Eligible(req) : blocks[j] = bs[i]
    /\ \A i, j \in 1..Len(bs) : bs[i] = bs[j] => i = j
    /\ \A i \in 1..(Len(bs) - 1) : HeightOf(bs[i]) <= HeightOf(bs[i + 1])
    /\ \A j \in Eligible(req) :
          (\A i \in 1..Len(bs) : bs[i] # blocks[j])
            => \A i \in 1..Len(bs) : HeightOf(bs[i]) <= HeightOf(blocks[j])

\* C7: the blocks of a syncResponse are exactly the first
\* min(requestedBlocks, n) of the n stored blocks with height >
\* lastKnownBlockHeight in ascending height order (limit 100 when
\* requestedBlocks is absent).
C7_FirstMinBlocks ==
    LastWasSync =>
        /\ Cardinality(sent) = 1
        /\ IsLowestK(LastBlocks, LastRequest,
                     Min(StatedLimit(LastRequest), Cardinality(Eligible(LastRequest))))

\* C8 as stated: the blocks of a syncResponse are strictly ascending by
\* height.
C8_StrictlyAscending ==
    LastWasSync =>
        \A i \in 1..(Len(LastBlocks) - 1) :
            HeightOf(LastBlocks[i]) < HeightOf(LastBlocks[i + 1])

\* C8 amended: the blocks of a syncResponse are ascending by height, each
\* height greater than or equal to the one before it, and strictly greater
\* unless the two blocks were stored under different hashes with the same
\* height.
C8_Ascending ==
    LastWasSync =>
        \A i \in 1..(Len(LastBlocks) - 1) :
            /\ HeightOf(LastBlocks[i]) <= HeightOf(LastBlocks[i + 1])
            /\ (HeightOf(LastBlocks[i]) = HeightOf(LastBlocks[i + 1])
                  => LastBlocks[i].hash # LastBlocks[i + 1].hash)

\* C8 witness: a response listing at least two blocks of different heights
C8_Witness ==
    /\ LastWasSync
    /\ Len(LastBlocks) >= 2
    /\ HeightOf(LastBlocks[1]) < HeightOf(LastBlocks[Len(LastBlocks)])

\* C9: when the request carries requestedBlocks (0 included), the response
\* lists at most that many blocks.
C9_AtMostRequested ==
    (LastWasSync /\ LastRequest.hasRequested) =>
        Len(LastBlocks) <= LastRequest.requestedBlocks

----------------------------------------------------------------------------
(* Properties of the liveness monitor *)

\* C10 as stated: a peer is evicted by the sweep only after two consecutive
\* pings went unanswered.
C10_EvictedAfterTwoMisses == \A c \in evicted : missed[c] >= 2

\* C10 amended: a peer is evicted by the sweep after exactly one
\* unanswered ping: the sweep that follows a ping the peer did not answer
\* evicts it without sending a second ping.
C10_EvictedAfterOneMiss == \A c \in evicted : missed[c] = 1

\* C10 witness: a peer that left one ping unanswered has been evicted
\* (registry entry removed, transport terminated) while another registered
\* peer with an open transport is alive.
C10_Witness ==
    /\ \E c \in evicted : missed[c] = 1 /\ ~Registered(c) /\ wsState[c] = "closing"
    /\ \E c \in Conns \ evicted : Registered(c) /\ isAlive[c] /\ wsState[c] = "open"

\* C11: a registered peer whose transport stays open and which leaves its
\* ping unanswered is evicted no later than the second sweep after it
\* registered or last answered: no connection that the sweep pinged from
\* the registry is still open once two sweeps have run since.
C11_EvictedBySecondSweep ==
    \A c \in Conns : (wsState[c] = "open" /\ missed[c] >= 1) => sweeps[c] <= 1

\* C12 as stated: in every reachable state each registry entry refers to
\* a transport that is open.
C12_EntriesAreOpen == \A n \in DOMAIN peers : wsState[peers[n]] = "open"

\* C12 amended: in every reachable state each registry entry refers to a
\* transport whose close event has not been handled yet, open or on its
\* way to closed; the close event and the eviction each leave the registry
\* without an entry for the transport that closed or was evicted.
C12_EntriesAreNotClosed ==
    /\ \A n \in DOMAIN peers : wsState[peers[n]] \in {"open", "closing"}
    /\ \A c \in Conns : (wsState[c] = "closed" \/ c \in evicted) => ~Registered(c)

\* C12 witness: a connection that had registered has closed without being
\* evicted, another was evicted by the sweep, and the registry holds
\* neither.
C12_Witness ==
    /\ \E c \in Conns \ evicted :
          wsState[c] = "closed" /\ peer[c] # "" /\ ~Registered(c)
    /\ \E c \in evicted : ~Registered(c) /\ wsState[c] = "closing"

----------------------------------------------------------------------------
(* Properties of start-up and persistence *)

\* The ledger as one record
Ledger ==
    [blocks |-> blocks, blockKeys |-> blockKeys, transactions |-> transactions,
     txByAddress |-> txByAddress, height |-> height, tips |-> tips,
     genesisHash |-> genesisHash]

\* C13: for every reachable ledger state, loading the snapshot that save
\* writes reproduces the block table, transaction table, address index,
\* height, tip set and genesis hash.
C13_SnapshotRoundTrip == booted # "no" => Loaded(Saved("written")) = Ledger

\* The failed load left nothing in the store createGenesisBlock runs on
GenesisOnEmptyStore ==
    LET l == FailedLoad(disk)
    IN l.blocks = <<>> /\ l.transactions = <<>> /\ l.txByAddress = <<>>

\* C14: genesis bootstrap on an empty store yields height 0, exactly one
\* block, exactly five transactions, and for each bucket a balance equal
\* to its allocation.
C14_GenesisBootstrap ==
    [][(booted = "no" /\ booted' = "genesis" /\ GenesisOnEmptyStore)
        => /\ height' = 0
           /\ Len(blocks') = 1
           /\ Cardinality(DOMAIN transactions') = 5
           /\ calculateBalance("treasury")' = 100000000
           /\ calculateBalance("team")' = 20000000
           /\ calculateBalance("validators")' = 10000000
           /\ calculateBalance("community_rewards")' = 30000000
           /\ calculateBalance("liquidity_pool")' = 40000000]_vars

\* C14 witness: the process has started a second time without a snapshot
\* on disk and holds the ledger genesis built.
C14_Witness ==
    /\ booted = "genesis"
    /\ handled > 0
    /\ Len(blocks) = 1
    /\ calculateBalance("treasury") = 100000000

----------------------------------------------------------------------------
(* Properties of the message router *)

\* The types whose handlers only read the ledger
ReadOnlyTypes == {"syncRequest", "handshake", "heartbeat", "unknown"}

\* C15: handling a syncRequest, a handshake, a heartbeat or an envelope of
\* unrecognized type leaves block table, transaction table, address index
\* and height unchanged.
C15_ReadOnlyEnvelopes ==
    [][(handled' # handled /\ lastMsg'.env.type \in ReadOnlyTypes)
        => UNCHANGED <<blocks, blockKeys, transactions, txByAddress, height>>]_vars

\* C15 witness: a syncRequest was answered with at least one block from a
\* ledger that holds more than the genesis bootstrap.
C15_Witness ==
    /\ LastWasSync
    /\ Len(blocks) >= 2
    /\ Cardinality(DOMAIN transactions) > 5
    /\ \E s \in sent : Len(s.env.payload.blocks) >= 1

\* The step handles a payload-bearing envelope whose payload does not decode
DropsMalformed ==
    /\ handled' # handled
    /\ lastMsg'.env.type \in {"syncRequest", "blockBroadcast", "transactionBroadcast"}
    /\ lastMsg'.env.payload = Malformed

\* C16: when the payload of a syncRequest, blockBroadcast or
\* transactionBroadcast does not decode, the ledger is unchanged, nothing
\* is sent to anyone, and the connection stays open: while envelopes are
\* left to handle, it can handle the next one.
C16_MalformedIsDropped ==
    /\ [][DropsMalformed
            => /\ UNCHANGED ledgerVars
               /\ sent' = {}
               /\ wsState' = wsState
               /\ wsState'[lastMsg'.conn] = "open"]_vars
    /\ []((lastMsg.env.payload = Malformed /\ handled < MaxMsgs)
            => ENABLED (\E msg \in DropMsgs : HandleBlockBroadcast(lastMsg.conn, msg)))

\* C16 witness: a broadcast that does not decode was dropped while two
\* other registered peers had open transports, and nothing was sent.
C16_Witness ==
    /\ lastMsg.env.type = "blockBroadcast"
    /\ lastMsg.env.payload = Malformed
    /\ sent = {}
    /\ Cardinality(OpenOthers(lastMsg.env.senderId)) >= 1
    /\ handled >= 2

\* The transactions of a list that carry an id
WithId(txs) == SelectSeq(txs, LAMBDA t : t.id # "")

\* C17: a transactionBroadcast of a transaction without id leaves the
\* transaction table and the address index unchanged, and an accepted
\* block stores exactly its transactions that carry an id.
C17_NoIdIsSkipped ==
    [][/\ (Handles("transactionBroadcast") /\ lastMsg'.env.payload.id = "")
            => UNCHANGED <<transactions, txByAddress>>
       /\ (Handles("blockBroadcast") /\ Len(blocks') > Len(blocks)
             /\ lastMsg'.env.payload.txShape = "array")
            => LET st == StoreAll([transactions |-> transactions,
                                   txByAddress |-> txByAddress],
                                  WithId(lastMsg'.env.payload.transactions))
               IN /\ transactions' = st.transactions
                  /\ txByAddress' = st.txByAddress
                  /\ "" \notin DOMAIN transactions']_vars

\* C17 witness: block B5 was accepted; its transaction t2 is stored and
\* the one without id is not.
C17_Witness ==
    /\ lastMsg.env.type = "blockBroadcast"
    /\ lastMsg.env.payload = B5
    /\ blocks[Len(blocks)] = B5
    /\ "t2" \in DOMAIN transactions
    /\ "" \notin DOMAIN transactions

\* C18: a blockBroadcast whose block has no hash leaves the block table,
\* height, transaction table and address index unchanged.
C18_NoHashIsIgnored ==
    [][(Handles("blockBroadcast") /\ lastMsg'.env.payload.hash = "")
        => UNCHANGED <<blocks, blockKeys, height, transactions, txByAddress>>]_vars

\* C19: no envelope (handshake reply, heartbeat reply, syncResponse or
\* relay) is sent on a transport that is not open.
C19_SendsOnlyToOpen ==
    \A s \in sent : s.env.type # "ping" => wsState[s.to] = "open"

\* C20: at any time at most one open connection that has completed
\* registration is associated with a given sender id.
C20_OneSessionPerId ==
    \A c, d \in Conns :
        (c # d /\ wsState[c] = "open" /\ wsState[d] = "open" /\ peer[c] # "")
            => peer[c] # peer[d]

----------------------------------------------------------------------------
(* Height, relay and sync replies *)

\* C21: the ledger height never decreases across any sequence of envelopes:
\* each accepted block leaves it at the greater of the previous height and
\* the block's height, and no other envelope changes it.
C21_HeightNeverDecreases ==
    [][/\ height' >= height
       /\ Len(blocks') > Len(blocks)
            => height' = IF HeightOf(blocks'[Len(blocks')]) > height
                         THEN HeightOf(blocks'[Len(blocks')])
                         ELSE height
       /\ Len(blocks') = Len(blocks) => height' = height]_vars

\* A block of height 1 was accepted after one of height 2
C21_Witness ==
    /\ Len(blocks) >= 3
    /\ HeightOf(blocks[Len(blocks) - 1]) = 2
    /\ HeightOf(blocks[Len(blocks)]) = 1
    /\ height = 2

\* The relay of the last envelope to every open registry entry other than
\* the one keyed by its senderId
FullRelay ==
    {[to |-> r, env |-> lastMsg.env] : r \in OpenOthers(lastMsg.env.senderId)}

\* C22: a blockBroadcast that inserts a new block relays the original
\* envelope to every registry entry other than the sender's whose transport
\* is open, and a blockBroadcast that inserts none relays to nobody.
C22_NewBlockIsRelayed ==
    [][Handles("blockBroadcast")
        => IF Len(blocks') > Len(blocks)
           THEN sent' = FullRelay'
           ELSE sent' = {}]_vars

\* C23: every transactionBroadcast whose payload decodes is relayed to all
\* other open registry entries, also when its transaction id is already in
\* the transaction table.
C23_TransactionAlwaysRelayed ==
    (lastMsg.env.type = "transactionBroadcast" /\ lastMsg.env.payload # Malformed)
        => sent = FullRelay

\* C23 witness: transaction t1 was delivered a second time, its id being in
\* the table already, and the envelope was relayed again.
C23_Witness ==
    /\ lastMsg.env.type = "transactionBroadcast"
    /\ lastMsg.env.payload = T1
    /\ "A" \in DOMAIN txByAddress
    /\ Len(txByAddress["A"]) >= 2
    /\ sent # {}

\* C24: every syncRequest with a decodable payload produces exactly one
\* syncResponse, on the requesting connection only, whose id is the
\* request's id (a generated one when the request has none) and whose
\* payload carries blocks, the requested address's transactions, the ledger
\* height and the balance of the requested address.
C24_OneSyncResponse ==
    LastWasSync =>
        \E s \in sent :
            /\ sent = {s}
            /\ s.to = lastMsg.conn
            /\ s.env.type = "syncResponse"
            /\ IF lastMsg.env.id # ""
               THEN s.env.id = lastMsg.env.id
               ELSE s.env.id # "" /\ s.env.id = FreshId
            /\ \A i \in 1..Len(s.env.payload.blocks) :
                    \E j \in 1..Len(blocks) : s.env.payload.blocks[i] = blocks[j]
            /\ \A i \in 1..Len(s.env.payload.userTransactions) :
                    s.env.payload.userTransactions[i].id
                        = IndexOf(txByAddress, LastRequest.userAddress)[i]
            /\ s.env.payload.currentHeight = height
            /\ s.env.payload.address = LastRequest.userAddress
            /\ s.env.payload.balance = calculateBalance(LastRequest.userAddress)

\* C24 witness: a request without an id, made after a block of height 2 was
\* accepted, was answered under a generated id with at least one block.
C24_Witness ==
    /\ LastWasSync
    /\ lastMsg.env.id = ""
    /\ height = 2
    /\ \E s \in sent : s.env.id = FreshId /\ Len(s.env.payload.blocks) >= 1

----------------------------------------------------------------------------
(* Shutdown, start-up and the liveness sweep *)

\* A step that takes the process down on SIGTERM or SIGINT
ShutdownStep == booted # "no" /\ booted' = "no"

\* The file holds every block and every transaction of the ledger
HoldsLedger(file) ==
    /\ file.kind = "snapshot"
    /\ \A i \in 1..Len(blocks) :
            \E j \in 1..Len(file.blocks) : file.blocks[j].block = blocks[i]
    /\ \A id \in DOMAIN transactions :
            id \in DOMAIN file.transactions /\ file.transactions[id] = transactions[id]

\* C25 as stated: when the process goes down on a termination signal, the
\* snapshot it leaves contains every block and transaction accepted before
\* the signal.
C25_LastSnapshotHasEverything ==
    [][ShutdownStep => HoldsLedger(disk')]_vars

\* C25 as amended: on a termination signal saveBlockchain is called on the
\* ledger as it is at the signal, before anything is torn down; the file it
\* leaves is the snapshot of that ledger or, when the write throws, the
\* previous file or a truncated one.
C25_SaveAttemptedBeforeExit ==
    [][ShutdownStep =>
        \/ disk' = Snapshot(blockKeys, blocks, transactions, txByAddress,
                            height, tips, genesisHash)
        \/ disk' = disk
        \/ disk' = Unparsable]_vars

\* C25 witness: the process went down after it had accepted two blocks
\* and the file it left holds them after the genesis block.
C25_Witness ==
    /\ booted = "no"
    /\ handled >= 2
    /\ disk.kind = "snapshot"
    /\ Len(disk.blocks) = 3
    /\ disk.blocks[2].block = B1
    /\ disk.blocks[3].block = B0

\* A step that runs the start-up code of a process
StartupStep == booted = "no" /\ booted' # "no"

\* C26: snapshot load, and genesis bootstrap when it runs, are complete
\* before the node handles any connection or envelope; genesis bootstrap
\* runs if and only if no snapshot was loaded, and at most once per process.
C26_StartupBeforeTraffic ==
    [][/\ booted = "no" => (handled' = handled /\ wsState' = wsState)
       /\ StartupStep =>
            /\ booted' = "genesis" <=> disk.kind # "snapshot"
            /\ booted' = "loaded" => (Ledger' = Loaded(disk) /\ disk' = disk)
            /\ booted' = "genesis" =>
                    /\ blocks' = Append(blocks, GenesisBlock)
                    /\ genesisHash' = GenesisHash
       /\ (booted # "no" /\ booted' # "no") =>
            /\ booted' = booted
            /\ handled' = handled => UNCHANGED ledgerVars]_vars

\* C27: a client that opens a connection and sends only a syncRequest
\* receives a handshake envelope from the node, when it connects or when
\* its request arrives, and then a syncResponse.
C27_HandshakeThenSyncResponse ==
    [][(handled = 0 /\ Handles("syncRequest"))
        => /\ \E s \in sent \cup sent' :
                s.to = lastMsg'.conn /\ s.env.type = "handshake"
           /\ \E s \in sent' :
                s.to = lastMsg'.conn /\ s.env.type = "syncResponse"]_vars

\* A step of the liveness sweep that some open registered connection saw
SweepStep == \E c \in Conns : sweeps'[c] > sweeps[c]

\* C28: in each liveness sweep every open transport that has completed
\* registration is either evicted, its alive flag being false, or has its
\* alive flag cleared and is sent a ping; none is skipped.
C28_NoOpenPeerSkipped ==
    [][SweepStep =>
        \A c \in Conns :
            (wsState[c] = "open" /\ peer[c] # "")
                => IF IsDead(c)
                   THEN c \in evicted' /\ wsState'[c] # "open"
                   ELSE IsDead(c)' /\ [to |-> c, env |-> Ping] \in sent']_vars

\* C29: a peer in the registry whose transport is open and which has
\* answered every ping it was sent is not evicted by the sweep: it keeps
\* its registry entry and its transport, however many sweeps have run.
C29_ResponsivePeerStays ==
    [][\A c \in Conns :
        (Registered(c) /\ wsState[c] = "open" /\ missed[c] = 0 /\ SweepStep)
            => /\ c \notin evicted'
               /\ Registered(c)'
               /\ wsState'[c] = "open"]_vars

\* C29 witness: a registered peer answered a ping and the sweep that
\* followed pinged it again instead of evicting it.
C29_Witness ==
    \E c \in Conns :
        /\ pongs[c] >= 1
        /\ missed[c] = 1
        /\ Registered(c)
        /\ wsState[c] = "open"
        /\ [to |-> c, env |-> Ping] \in sent

\* C30: the close event of a connection removes only that connection's own
\* registration: every registry entry that refers to another connection is
\* still in place after it.
C30_CloseRemovesOwnEntryOnly ==
    [][\A c \in Conns :
        (wsState[c] = "closing" /\ wsState'[c] = "closed")
            => \A n \in DOMAIN peers :
                    peers[n] # c => (n \in DOMAIN peers' /\ peers'[n] = peers[n])]_vars

----------------------------------------------------------------------------
(* Echo, sync cursors, index contents, failed loads and saves *)

\* C31: a relayed blockBroadcast or transactionBroadcast envelope is never
\* delivered back on the connection it arrived on, whatever senderId the
\* envelopes of a registered connection carry.
C31_NoEchoToArrivalConnection ==
    LastWasBroadcast => \A s \in sent : s.to # lastMsg.conn

\* The greatest height among the blocks of a non-empty response
RECURSIVE GreatestHeight(_)
GreatestHeight(bs) ==
    IF Len(bs) = 1 THEN HeightOf(bs[1])
    ELSE LET rest == GreatestHeight(Tail(bs))
         IN IF HeightOf(bs[1]) > rest THEN HeightOf(bs[1]) ELSE rest

\* The blocks a client has received when it repeats the request req against
\* the ledger as it is, each time with lastKnownBlockHeight set to the
\* greatest height received so far, until a response comes back empty
RECURSIVE SyncWalk(_, _)
SyncWalk(req, got) ==
    LET bs == SyncBlocks(req)
    IN IF bs = <<>>
       THEN got
       ELSE SyncWalk([req EXCEPT !.lastKnownBlockHeight = GreatestHeight(bs)],
                     got \cup {bs[i] : i \in 1..Len(bs)})

\* C32: against a ledger that has stopped changing, a client that repeats
\* syncRequest from cursor to cursor receives every stored block whose
\* height is greater than its starting cursor.
C32_CursorWalkIsComplete ==
    \A req \in SyncRequests :
        SyncWalk(req, {})
            = {blocks[i] : i \in {j \in 1..Len(blocks) :
                                    HeightOf(blocks[j]) > req.lastKnownBlockHeight}}

\* Transaction tx has address a as its sender or as its receiver
Touches(tx, a) == tx.fromAddress = a \/ tx.toAddress = a

\* C33: the userTransactions of a syncResponse for address a contain every
\* transaction of the transaction table whose fromAddress or toAddress is
\* a, and only transactions whose fromAddress or toAddress is a.
C33_UserTransactionsTouchAddress ==
    LastWasSync =>
        \A s \in sent :
            LET a == LastRequest.userAddress
                txs == s.env.payload.userTransactions
            IN /\ \A id \in DOMAIN transactions :
                    Touches(transactions[id], a)
                        => \E i \in 1..Len(txs) : txs[i] = transactions[id]
               /\ \A i \in 1..Len(txs) : Touches(txs[i], a)

\* C34: userTransactions lists the address's transactions in the order of
\* the address's index list, one per entry, whatever requestedBlocks and
\* lastKnownBlockHeight the request carries.
C34_UserTransactionsInIndexOrder ==
    LastWasSync =>
        \A s \in sent :
            LET ids == IndexOf(txByAddress, LastRequest.userAddress)
                txs == s.env.payload.userTransactions
            IN /\ Len(txs) = Len(ids)
               /\ \A i \in 1..Len(ids) : txs[i] = transactions[ids[i]]

\* C34 witness: a request for one block above height 2 was answered with
\* both transactions of the address, in the order they were indexed.
C34_Witness ==
    /\ LastWasSync
    /\ LastRequest.hasRequested
    /\ LastRequest.requestedBlocks = 1
    /\ LastRequest.lastKnownBlockHeight = 2
    /\ LastRequest.userAddress = "B"
    /\ IndexOf(txByAddress, "B") = <<"t1", "t3">>
    /\ \E s \in sent : s.env.payload.userTransactions = <<T1, T3>>

\* C35: when loading the snapshot fails (file absent, unparsable, or a
\* field of the wrong shape), genesis bootstrap runs on an empty store: the
\* ledger start-up leaves holds exactly the genesis block and its five
\* transactions at height 0.
C35_FailedLoadLeavesEmptyStore ==
    [][(StartupStep /\ booted' = "genesis")
        => /\ blocks' = <<GenesisBlock>>
           /\ transactions' = GenesisStore.transactions
           /\ txByAddress' = GenesisStore.txByAddress
           /\ height' = 0]_vars

\* The greatest height among the stored blocks, 0 when none is positive
StoredHeight ==
    IF blocks = <<>> THEN 0
    ELSE IF GreatestHeight(blocks) > 0 THEN GreatestHeight(blocks) ELSE 0

\* C36: in every reachable state the ledger height equals the greatest
\* height among the stored blocks, so the currentHeight of a syncResponse
\* is at least the height of every block it returns.
C36_HeightIsGreatestStored ==
    /\ height = StoredHeight
    /\ LastWasSync =>
            \A s \in sent :
                \A i \in 1..Len(s.env.payload.blocks) :
                    s.env.payload.currentHeight >= HeightOf(s.env.payload.blocks[i])

\* The id of tx is in the index list of address a, when tx names one
Indexed(tx, a) ==
    a # "" => \E i \in 1..Len(IndexOf(txByAddress, a)) : IndexOf(txByAddress, a)[i] = tx.id

\* C37: every transaction with an id that is embedded in a stored block has
\* an entry under that id in the transaction table, and its id is in the
\* index list of its fromAddress and of its toAddress.
C37_BlockTransactionsAreStored ==
    \A i \in 1..Len(blocks) :
        \A j \in 1..Len(blocks[i].transactions) :
            LET tx == blocks[i].transactions[j]
            IN tx.id # ""
                => /\ tx.id \in DOMAIN transactions
                   /\ Indexed(tx, tx.fromAddress)
                   /\ Indexed(tx, tx.toAddress)

\* C38: a connection registers at most once, on its first envelope with a
\* non-empty senderId: an envelope without one leaves it unregistered and
\* is still dispatched, and a later envelope with another senderId neither
\* creates a registry entry nor changes the id of the connection.
C38_RegistersOnce ==
    [][\A c \in Conns :
        /\ peer[c] # "" => peer'[c] = peer[c]
        /\ (handled' # handled /\ lastMsg'.conn = c) =>
            LET senderId == lastMsg'.env.senderId
            IN /\ (peer[c] = "" /\ senderId = "")
                    => (peer'[c] = "" /\ peers' = peers /\ sent' # {})
               /\ (peer[c] = "" /\ senderId # "")
                    => /\ peer'[c] = senderId
                       /\ senderId \in DOMAIN peers' /\ peers'[senderId] = c
                       /\ \A n \in DOMAIN peers' \ {senderId} :
                            n \in DOMAIN peers /\ peers'[n] = peers[n]
               /\ peer[c] # "" => peers' = peers]_vars

\* C38 witness: a connection registered as p1 has sent an envelope with
\* senderId p2; it is still registered as p1 and no entry p2 exists.
C38_Witness ==
    \E c \in Conns :
        /\ lastMsg.conn = c
        /\ lastMsg.env.senderId = "p2"
        /\ peer[c] = "p1"
        /\ "p1" \in DOMAIN peers /\ peers["p1"] = c
        /\ "p2" \notin DOMAIN peers

\* C39: a save, failed or successful, leaves the in-memory ledger, the
\* registry and the connections as they are and the process running, and
\* whatever the last save did to the file the next periodic save can run.
C39_FailedSaveIsNotFatal ==
    [][/\ (booted # "no" /\ booted' # "no" /\ disk' # disk)
            => UNCHANGED <<ledgerVars, peerVars, handled, booted>>
       /\ booted' # "no" => (ENABLED AutoSave)']_vars

\* C39 witness: with the file left broken by a failed save, the node has
\* just handled a blockBroadcast and stored its block.
C39_Witness ==
    /\ booted # "no"
    /\ disk = Unparsable
    /\ lastMsg.env.type = "blockBroadcast"
    /\ Len(blocks) >= 2
    /\ blocks[Len(blocks)] = lastMsg.env.payload

====
